---- MODULE Spec2Model ----
(***************************************************************************)
(* The archery form analyzer front end (the App component): the React      *)
(* state of App, the fetches in flight, the setInterval timers created by  *)
(* playAnimation, and the handlers that act on them.  The line numbers of   *)
(* the comments are those of the enhanced App (src/unnamed/part_000); the   *)
(* playback handlers of src/frontend/src/App.js are the same code.         *)
(***************************************************************************)
EXTENDS Integers, Sequences, FiniteSets, Bags, TLC

\* ------------------------------------------------------------------ bounds
MaxLen == 2        \* longest pose_data array a response carries
MaxTimers == 2     \* intervals active at the same time
MaxRequests == 2   \* fetch calls in one run

\* --------------------------------------------------------------- variables
VARIABLES
  analysis,       \* useState(null): the loaded result, NullAnalysis for null
  loading,        \* useState(false)
  error,          \* useState(null): "none" for null, else the message kind
  currentFrame,   \* useState(0)
  isPlaying,      \* useState(false)
  sampleVideos,   \* useState([])
  showSamples,    \* useState(false)
  selectedVideo,  \* useState(''): <<>> for ''
  timers,         \* the bag of the intervals that are set and not cleared, each
                  \* one given by the analysis its callback closes over
  requests,       \* the fetches that have not been answered yet
  nextReq,        \* number of fetch calls made so far
  last            \* history: the last playback-relevant event and the ticks since

vars == <<analysis, loading, error, currentFrame, isPlaying, sampleVideos,
          showSamples, selectedVideo, timers, requests, nextReq, last>>

\* ----------------------------------------------------------------- helpers
Digits == <<"0", "1", "2", "3", "4", "5", "6", "7", "8", "9">>

IsDigit(c) == \E d \in 1..10 : Digits[d] = c

DigitVal(c) == (CHOOSE d \in 1..10 : Digits[d] = c) - 1

\* String(n) for a natural number n, as the sequence of its characters
RECURSIVE DecimalString(_)
DecimalString(n) == IF n < 10 THEN <<Digits[n + 1]>>
               ELSE DecimalString(n \div 10) \o <<Digits[(n % 10) + 1]>>

\* the value accumulated by parseInt over the leading digits of s
RECURSIVE ParseDigits(_, _)
ParseDigits(s, acc) ==
  IF s = <<>> \/ ~IsDigit(Head(s)) THEN acc
  ELSE ParseDigits(Tail(s), acc * 10 + DigitVal(Head(s)))

\* parseInt(s) for a string that starts with a digit
ParseInt(s) == ParseDigits(s, 0)

\* the null analysis; a result carries the number of the request that fetched it
NullAnalysis == [req |-> 0, hasPose |-> FALSE, len |-> 0]

\* the results a successful analyze response of request r can carry:
\* pose_data absent, or an array of 0..MaxLen frames
Results(r) == {[req |-> r, hasPose |-> FALSE, len |-> 0]}
              \cup {[req |-> r, hasPose |-> TRUE, len |-> n] : n \in 0..MaxLen}

\* analysis.pose_data?.length || 0
PoseLength(a) == IF a.hasPose THEN a.len ELSE 0

\* the section "analysis && !loading" is rendered: the controls are on screen
ResultsShown == analysis # NullAnalysis /\ ~loading

\* the section "!analysis && !loading" is rendered: upload zone and sample button
UploadShown == analysis = NullAnalysis /\ ~loading

\* ----------------------------------------------------------- sample videos
\* the bodies a successful /api/sample-videos response can carry: the field
\* videos absent, an empty list, or a list that is not in the order of the
\* numbers in its names
SampleBodies == {[hasVideos |-> FALSE, videos |-> <<>>],
                 [hasVideos |-> TRUE, videos |-> <<>>],
                 [hasVideos |-> TRUE,
                  videos |-> <<[name |-> <<"V", "2">>], [name |-> <<"c">>]>>]}

\* name.match(/\d+/)?.[0] || '0': the first run of digits of the name
RECURSIVE DigitRun(_)
DigitRun(s) == IF s = <<>> \/ ~IsDigit(Head(s)) THEN <<>>
               ELSE <<Head(s)>> \o DigitRun(Tail(s))

RECURSIVE FirstDigits(_)
FirstDigits(s) == IF s = <<>> THEN <<"0">>
                  ELSE IF IsDigit(Head(s)) THEN DigitRun(s)
                  ELSE FirstDigits(Tail(s))

VideoNumber(v) == ParseInt(FirstDigits(v.name))

\* insert v behind the videos that do not come after it (the sort is stable)
RECURSIVE InsertVideo(_, _)
InsertVideo(v, s) ==
  IF s = <<>> THEN <<v>>
  ELSE IF VideoNumber(Head(s)) - VideoNumber(v) <= 0
       THEN <<Head(s)>> \o InsertVideo(v, Tail(s))
       ELSE <<v>> \o s

\* (data.videos || []).sort((a, b) => aNum - bNum)
RECURSIVE SortVideos(_)
SortVideos(s) == IF s = <<>> THEN <<>>
                 ELSE InsertVideo(s[Len(s)], SortVideos(SubSeq(s, 1, Len(s) - 1)))

\* ----------------------------------------------------------------- history
\* the event op: the position a seek asked for, the currentFrame a play or a
\* pause left, and the isPlaying a load or a discard found
Note(op, arg, frame) ==
  [op |-> op,
   arg |-> IF op = "seek" THEN arg ELSE 0,
   ticks |-> 0,
   frame |-> IF op \in {"play", "pause"} THEN frame ELSE 0,
   playing |-> IF op \in {"load", "discard"} THEN isPlaying ELSE FALSE]

\* a timer callback ran since the last event: the callbacks are counted
\* after a play, and noticed after any other event
Ticked ==
  [last EXCEPT !.ticks = IF @ < (IF last.op = "play" THEN MaxLen + 1 ELSE 1)
                         THEN @ + 1 ELSE @]

\* -------------------------------------------------------------------- Init
Init ==
  /\ analysis = NullAnalysis
  /\ loading = FALSE
  /\ error = "none"
  /\ currentFrame = 0
  /\ isPlaying = FALSE
  /\ sampleVideos = <<>>
  /\ showSamples = FALSE
  /\ selectedVideo = <<>>
  /\ timers = EmptyBag
  /\ requests = {}
  /\ nextReq = 0
  /\ last = [op |-> "init", arg |-> 0, ticks |-> 0, frame |-> 0, playing |-> FALSE]

\* ---------------------------------------------------------------- requests
\* analyzeVideo(file, videoName) up to its fetch
AnalyzeVideo(videoName) ==
  /\ loading' = TRUE
  /\ error' = "none"
  /\ analysis' = NullAnalysis
  /\ selectedVideo' = videoName
  /\ nextReq' = nextReq + 1
  /\ requests' = requests \cup {[id |-> nextReq + 1, kind |-> "analyze"]}
  /\ last' = Note("analyze", 0, currentFrame)
  /\ UNCHANGED <<currentFrame, isPlaying, sampleVideos, timers>>

\* onDrop(acceptedFiles): no file, a file that is not a video, or a video
OnDrop(file) ==
  /\ UploadShown
  /\ CASE file = "none" -> UNCHANGED vars
       [] file = "text" -> /\ error' = "upload"
                           /\ UNCHANGED <<analysis, loading, currentFrame, isPlaying,
                                          sampleVideos, showSamples, selectedVideo,
                                          timers, requests, nextReq, last>>
       [] file = "video" -> /\ AnalyzeVideo(<<>>)
                            /\ UNCHANGED showSamples

\* analyzeVideo after its fetch: the response is ok with a result, or the
\* fetch, the status or the body fails
AnalyzeResponse(r, ok, result) ==
  /\ r \in requests
  /\ r.kind = "analyze"
  /\ requests' = requests \ {r}
  /\ IF ok
     THEN /\ analysis' = result
          /\ currentFrame' = 0
          /\ last' = Note("load", 0, 0)
          /\ UNCHANGED error
     ELSE /\ error' = "analysis"
          /\ UNCHANGED <<analysis, currentFrame, last>>
  /\ loading' = FALSE
  /\ UNCHANGED <<isPlaying, sampleVideos, showSamples, selectedVideo,
                 timers, nextReq>>

\* loadSampleVideos up to its fetch
LoadSampleVideos ==
  /\ UploadShown
  /\ nextReq' = nextReq + 1
  /\ requests' = requests \cup {[id |-> nextReq + 1, kind |-> "samples"]}
  /\ UNCHANGED <<analysis, loading, error, currentFrame, isPlaying, sampleVideos,
                 showSamples, selectedVideo, timers, last>>

\* loadSampleVideos after its fetch
SampleVideosResponse(r, ok, data) ==
  /\ r \in requests
  /\ r.kind = "samples"
  /\ requests' = requests \ {r}
  /\ IF ok
     THEN /\ sampleVideos' = SortVideos(IF data.hasVideos THEN data.videos ELSE <<>>)
          /\ showSamples' = TRUE
          /\ UNCHANGED error
     ELSE /\ error' = "samples"
          /\ UNCHANGED <<sampleVideos, showSamples>>
  /\ UNCHANGED <<analysis, loading, currentFrame, isPlaying, selectedVideo,
                 timers, nextReq, last>>

\* a click on a card of the sample videos modal
AnalyzeSampleVideo(i) ==
  /\ showSamples
  /\ i \in 1..Len(sampleVideos)
  /\ showSamples' = FALSE
  /\ AnalyzeVideo(sampleVideos[i].name)

\* the modal's overlay or its Close button
CloseSamples ==
  /\ showSamples
  /\ showSamples' = FALSE
  /\ UNCHANGED <<analysis, loading, error, currentFrame, isPlaying, sampleVideos,
                 selectedVideo, timers, requests, nextReq, last>>

\* the Try Again button of the error section
ClearError ==
  /\ error # "none"
  /\ error' = "none"
  /\ UNCHANGED <<analysis, loading, currentFrame, isPlaying, sampleVideos,
                 showSamples, selectedVideo, timers, requests, nextReq, last>>

\* the Analyze Another Video button
AnalyzeAnother ==
  /\ ResultsShown
  /\ analysis' = NullAnalysis
  /\ currentFrame' = 0
  /\ error' = "none"
  /\ selectedVideo' = <<>>
  /\ last' = Note("discard", 0, 0)
  /\ UNCHANGED <<loading, isPlaying, sampleVideos, showSamples, timers,
                 requests, nextReq>>

\* ---------------------------------------------------------------- playback
\* playAnimation, the handler of the play/pause button while isPlaying is false
PlayAnimation ==
  /\ ResultsShown
  /\ ~isPlaying
  /\ IF ~analysis.hasPose
     THEN UNCHANGED vars
     ELSE /\ BagCardinality(timers) < MaxTimers
          /\ isPlaying' = TRUE
          /\ timers' = timers (+) SetToBag({analysis})
          /\ last' = Note("play", 0, currentFrame)
          /\ UNCHANGED <<analysis, loading, error, currentFrame, sampleVideos,
                         showSamples, selectedVideo, requests, nextReq>>

\* Tick whose interval starts again at frame 0 instead of stopping
TickLoops(t) ==
  /\ BagIn(t, timers)
  /\ IF currentFrame >= t.len - 1
     THEN /\ currentFrame' = 0
          /\ UNCHANGED <<isPlaying, timers>>
     ELSE /\ currentFrame' = currentFrame + 1
          /\ UNCHANGED <<isPlaying, timers>>
  /\ last' = Ticked
  /\ UNCHANGED <<analysis, loading, error, sampleVideos, showSamples,
                 selectedVideo, requests, nextReq>>

\* Tick whose interval clears itself without setIsPlaying(false)
TickKeepsPlaying(t) ==
  /\ BagIn(t, timers)
  /\ IF currentFrame >= t.len - 1
     THEN /\ timers' = timers (-) SetToBag({t})
          /\ UNCHANGED <<currentFrame, isPlaying>>
     ELSE /\ currentFrame' = currentFrame + 1
          /\ UNCHANGED <<isPlaying, timers>>
  /\ last' = Ticked
  /\ UNCHANGED <<analysis, loading, error, sampleVideos, showSamples,
                 selectedVideo, requests, nextReq>>

\* the callback of the interval t, which closes over the analysis of the
\* render that started it
Tick(t) ==
  /\ BagIn(t, timers)
  /\ IF currentFrame >= t.len - 1
     THEN /\ isPlaying' = FALSE
          /\ timers' = timers (-) SetToBag({t})
          /\ UNCHANGED currentFrame
     ELSE /\ currentFrame' = currentFrame + 1
          /\ UNCHANGED <<isPlaying, timers>>
  /\ last' = Ticked
  /\ UNCHANGED <<analysis, loading, error, sampleVideos, showSamples,
                 selectedVideo, requests, nextReq>>

\* pauseAnimation, the handler of the play/pause button while isPlaying is true
PauseAnimation ==
  /\ ResultsShown
  /\ isPlaying
  /\ isPlaying' = FALSE
  /\ last' = Note("pause", 0, currentFrame)
  /\ UNCHANGED <<analysis, loading, error, currentFrame, sampleVideos, showSamples,
                 selectedVideo, timers, requests, nextReq>>

\* resetAnimation
ResetAnimation ==
  /\ ResultsShown
  /\ currentFrame' = 0
  /\ isPlaying' = FALSE
  /\ last' = Note("reset", 0, 0)
  /\ UNCHANGED <<analysis, loading, error, sampleVideos, showSamples,
                 selectedVideo, timers, requests, nextReq>>

\* max={Math.max(0, (analysis.pose_data?.length || 1) - 1)}
SliderMax(a) ==
  LET n == IF PoseLength(a) = 0 THEN 1 ELSE PoseLength(a)
  IN IF n - 1 > 0 THEN n - 1 ELSE 0

\* SliderValue without the upper end of the track
SliderValueNoMax(raw, a) == DecimalString(IF raw < 0 THEN 0 ELSE raw)

\* e.target.value of the range input with min="0" and max=SliderMax when the
\* user asks for position raw: the input keeps its value inside [min, max]
SliderValue(raw, a) ==
  DecimalString(IF raw < 0 THEN 0 ELSE IF raw > SliderMax(a) THEN SliderMax(a) ELSE raw)

\* Seek that also stops the playback
SeekAndPause(raw) ==
  /\ ResultsShown
  /\ currentFrame' = ParseInt(SliderValue(raw, analysis))
  /\ isPlaying' = FALSE
  /\ last' = Note("seek", raw, ParseInt(SliderValue(raw, analysis)))
  /\ UNCHANGED <<analysis, loading, error, sampleVideos, showSamples,
                 selectedVideo, timers, requests, nextReq>>

\* onChange of the frame slider
Seek(raw) ==
  /\ ResultsShown
  /\ currentFrame' = ParseInt(SliderValue(raw, analysis))
  /\ last' = Note("seek", raw, ParseInt(SliderValue(raw, analysis)))
  /\ UNCHANGED <<analysis, loading, error, isPlaying, sampleVideos, showSamples,
                 selectedVideo, timers, requests, nextReq>>

\* the positions a user can ask the slider for, some of them off its track
SeekInputs == -1..(MaxLen + 1)

\* -------------------------------------------------------------------- Next
\* the files a drop can bring while fewer than n fetch calls have been made
Files(n) == {"none", "text"} \cup (IF nextReq < n THEN {"video"} ELSE {})

Next ==
  \/ \E file \in Files(MaxRequests) : OnDrop(file)
  \/ \E r \in requests, ok \in BOOLEAN :
       \E result \in Results(r.id) : AnalyzeResponse(r, ok, result)
  \/ nextReq < MaxRequests /\ LoadSampleVideos
  \/ \E r \in requests, ok \in BOOLEAN, data \in SampleBodies :
       SampleVideosResponse(r, ok, data)
  \/ nextReq < MaxRequests /\ \E i \in 1..Len(sampleVideos) : AnalyzeSampleVideo(i)
  \/ CloseSamples
  \/ ClearError
  \/ AnalyzeAnother
  \/ PlayAnimation
  \/ \E t \in BagToSet(timers) : Tick(t)
  \/ PauseAnimation
  \/ ResetAnimation
  \/ \E raw \in SeekInputs : Seek(raw)

Spec == Init /\ [][Next]_vars

\* setInterval keeps calling the callback of an interval that is not cleared
TickFairness == WF_vars(\E t \in BagToSet(timers) : Tick(t))

SpecLive == Init /\ [][Next]_vars /\ TickFairness

\* ------------------------------------------------------- the fetches alone
\* fetch calls in one run of the App without playback
MaxFetches == MaxRequests + 1

\* the App from its first render through its uploads, sample lists and
\* responses, without the playback controls
NextRequests ==
  \/ \E file \in Files(MaxFetches) : OnDrop(file)
  \/ \E r \in requests, ok \in BOOLEAN :
       \E result \in Results(r.id) : AnalyzeResponse(r, ok, result)
  \/ nextReq < MaxFetches /\ LoadSampleVideos
  \/ \E r \in requests, ok \in BOOLEAN, data \in SampleBodies :
       SampleVideosResponse(r, ok, data)
  \/ nextReq < MaxFetches /\ \E i \in 1..Len(sampleVideos) : AnalyzeSampleVideo(i)
  \/ CloseSamples
  \/ ClearError
  \/ AnalyzeAnother

SpecRequests == Init /\ [][NextRequests]_vars

\* ------------------------------------------------------------------- types
TypeOK ==
  /\ analysis \in {NullAnalysis} \cup UNION {Results(r) : r \in 1..MaxRequests}
  /\ loading \in BOOLEAN
  /\ error \in {"none", "upload", "analysis", "samples"}
  /\ currentFrame \in Nat
  /\ isPlaying \in BOOLEAN
  /\ showSamples \in BOOLEAN
  /\ BagCardinality(timers) <= MaxTimers
  /\ nextReq \in 0..MaxRequests
  /\ \A t \in BagToSet(timers) : t.req \in 1..nextReq /\ t.hasPose
  /\ \A r \in requests : r.id \in 1..nextReq

\* ------------------------------------------------------------------ claims
Loaded == analysis # NullAnalysis

\* a result with a pose sequence of at least one frame is loaded
NonEmpty == Loaded /\ analysis.hasPose /\ analysis.len >= 1

\* C1: from pauseAnimation until the next play, seek, reset, load or discard,
\* isPlaying is false, no interval is active and currentFrame has the value
\* the pause found.
C1_PauseStopsPlayback ==
  last.op = "pause" =>
    (~isPlaying /\ timers = EmptyBag /\ currentFrame = last.frame)

\* C2: at most one interval is active in every reachable state.
C2_AtMostOneTimer == BagCardinality(timers) <= 1

\* C3: while a result with a non-empty pose sequence is loaded, currentFrame
\* is an index of that sequence.
C3_FrameInRange ==
  NonEmpty => (0 <= currentFrame /\ currentFrame < analysis.len)

\* C4: after a result was loaded or discarded while isPlaying was true, the
\* callback of an interval started for an earlier analysis changes neither
\* currentFrame nor isPlaying.
C4_NoStaleTick ==
  [][\A t \in BagToSet(timers) :
       (/\ last.op \in {"load", "discard"}
        /\ last.playing
        /\ t # analysis
        /\ Tick(t))
       => (currentFrame' = currentFrame /\ isPlaying' = isPlaying)]_vars

\* C5: from resetAnimation until the next play, seek, load or discard,
\* isPlaying is false, currentFrame is 0 and no interval is active.
C5_ResetStopsPlayback ==
  last.op = "reset" => (~isPlaying /\ currentFrame = 0 /\ timers = EmptyBag)

\* C6: right after a result is loaded, currentFrame is 0 and isPlaying is false.
C6_LoadResetsPlayback ==
  (last.op = "load" /\ last.ticks = 0) => (currentFrame = 0 /\ ~isPlaying)

\* C7: after playAnimation at frame 0 of a sequence of N >= 1 frames and no
\* other event, currentFrame never exceeds N-1, and once N callbacks have run
\* isPlaying is false, no interval is active and currentFrame is N-1.
C7_PlayRunsToLastFrame ==
  (NonEmpty /\ last.op = "play" /\ last.frame = 0) =>
    /\ currentFrame <= analysis.len - 1
    /\ last.ticks = analysis.len =>
         (~isPlaying /\ timers = EmptyBag /\ currentFrame = analysis.len - 1)

\* C8: a seek to an index i of the loaded sequence sets currentFrame to i and
\* leaves isPlaying and the set of intervals as they were.
C8_SeekExact ==
  [][\A i \in SeekInputs :
       (NonEmpty /\ i \in 0..(analysis.len - 1) /\ Seek(i))
       => (/\ currentFrame' = i
           /\ isPlaying' = isPlaying
           /\ timers' = timers)]_vars

\* C8 witness: an in-range seek past frame 0 has just acted during playback.
C8_Witness ==
  /\ NonEmpty
  /\ last.op = "seek" /\ last.ticks = 0
  /\ last.arg \in 1..(analysis.len - 1)
  /\ currentFrame = last.arg
  /\ isPlaying /\ timers # EmptyBag

\* C9: playAnimation on a loaded result whose pose sequence has length 0
\* changes neither isPlaying nor the intervals nor currentFrame.
C9_PlayOnEmptyIsNoOp ==
  [][(Loaded /\ PoseLength(analysis) = 0 /\ PlayAnimation)
     => (isPlaying' = isPlaying /\ timers' = timers /\ currentFrame' = currentFrame)]_vars

\* C10: a seek to a position outside [0, N-1] leaves currentFrame at the
\* nearer end of [0, N-1] and leaves the error as it was.
C10_SeekClamped ==
  [][\A raw \in SeekInputs :
       (NonEmpty /\ raw \notin 0..(analysis.len - 1) /\ Seek(raw))
       => (/\ currentFrame' = (IF raw < 0 THEN 0 ELSE analysis.len - 1)
           /\ currentFrame' \in 0..(analysis.len - 1)
           /\ error' = error)]_vars

\* C10 witness: a seek past the last frame has just acted.
C10_Witness ==
  /\ NonEmpty
  /\ last.op = "seek" /\ last.ticks = 0
  /\ last.arg > analysis.len - 1
  /\ currentFrame = analysis.len - 1

\* =================================================================== text
\* strings that the code searches are sequences of their characters
UpperCase == <<"A", "B", "C", "D", "E", "F", "G", "H", "I", "J", "K", "L", "M",
               "N", "O", "P", "Q", "R", "S", "T", "U", "V", "W", "X", "Y", "Z">>

LowerCase == <<"a", "b", "c", "d", "e", "f", "g", "h", "i", "j", "k", "l", "m",
               "n", "o", "p", "q", "r", "s", "t", "u", "v", "w", "x", "y", "z">>

\* c.toLowerCase() for one character
LowerChar(c) == IF \E k \in 1..26 : UpperCase[k] = c
                THEN LowerCase[CHOOSE k \in 1..26 : UpperCase[k] = c]
                ELSE c

\* s.toLowerCase()
ToLowerCase(s) == [k \in 1..Len(s) |-> LowerChar(s[k])]

\* s.includes(w)
Includes(s, w) ==
  \E k \in 0..(Len(s) - Len(w)) : SubSeq(s, k + 1, k + Len(w)) = w

\* the keywords of getErrorAnnotations and of the colour code
KwStance == <<"s", "t", "a", "n", "c", "e">>

KwShoulder == <<"s", "h", "o", "u", "l", "d", "e", "r">>

KwAlignment == <<"a", "l", "i", "g", "n", "m", "e", "n", "t">>

KwDraw == <<"d", "r", "a", "w">>

KwElbow == <<"e", "l", "b", "o", "w">>

KwAnchor == <<"a", "n", "c", "h", "o", "r">>

\* error entries of the analysis reports
\* "Stance width too narrow"
StanceWidth ==
  <<"S", "t", "a", "n", "c", "e", " ", "w", "i", "d", "t", "h", " ", "t",
     "o", "o", " ", "n", "a", "r", "r", "o", "w">>

\* "Inconsistent anchor point"
AnchorPoint ==
  <<"I", "n", "c", "o", "n", "s", "i", "s", "t", "e", "n", "t", " ", "a",
     "n", "c", "h", "o", "r", " ", "p", "o", "i", "n", "t">>

\* "Elbow drops during draw"
ElbowDraw ==
  <<"E", "l", "b", "o", "w", " ", "d", "r", "o", "p", "s", " ", "d", "u",
     "r", "i", "n", "g", " ", "d", "r", "a", "w">>

\* "Elbow too high"
ElbowHigh ==
  <<"E", "l", "b", "o", "w", " ", "t", "o", "o", " ", "h", "i", "g", "h">>

\* "Poor ALIGNMENT"
PoorAlignment ==
  <<"P", "o", "o", "r", " ", "A", "L", "I", "G", "N", "M", "E", "N", "T">>

\* "Shoulder raised"
ShoulderUp ==
  <<"S", "h", "o", "u", "l", "d", "e", "r", " ", "r", "a", "i", "s", "e",
     "d">>

\* "Release too slow"
ReleaseSlow ==
  <<"R", "e", "l", "e", "a", "s", "e", " ", "t", "o", "o", " ", "s", "l",
     "o", "w">>

\* ================================================================ results
\* an object without properties
EmptyObject == <<>>

\* one phase report of a result: the phase can be absent, and so can its list
\* and its metrics
Phase(errs) ==
  [present |-> TRUE, hasErrors |-> TRUE, errors |-> errs,
   hasMetrics |-> FALSE, metrics |-> EmptyObject]

NoPhase ==
  [present |-> FALSE, hasErrors |-> FALSE, errors |-> <<>>,
   hasMetrics |-> FALSE, metrics |-> EmptyObject]

NoList ==
  [present |-> TRUE, hasErrors |-> FALSE, errors |-> <<>>,
   hasMetrics |-> FALSE, metrics |-> EmptyObject]

\* the phase report p with the metrics m
Measured(p, m) == [p EXCEPT !.hasMetrics = TRUE, !.metrics = m]

\* result.analysis.analysis: the score and the four phase reports
Report(score, stance, draw, anchor, release) ==
  [overall_score |-> score, stance_analysis |-> stance, draw_analysis |-> draw,
   anchor_analysis |-> anchor, release_analysis |-> release]

NoErrors == Report(50, Phase(<<>>), Phase(<<>>), Phase(<<>>), Phase(<<>>))

\* a report with errors in every phase, whose stance and draw metrics share
\* the name angle and whose draw metrics use the name overall_score
AllErrors ==
  Report(50,
         Measured(Phase(<<StanceWidth>>), [stance_width |-> 40, angle |-> 10]),
         Measured(Phase(<<ElbowDraw, ShoulderUp>>), [angle |-> 20, overall_score |-> 1]),
         Phase(<<AnchorPoint>>),
         Measured(Phase(<<ReleaseSlow>>), [release_time |-> 3]))

\* the reports a response can carry
Reports ==
  { NoErrors,
    AllErrors,
    Report(50, Phase(<<StanceWidth>>), Phase(<<>>), Phase(<<>>), Phase(<<>>)),
    Report(50, Phase(<<>>), Phase(<<AnchorPoint, ElbowDraw>>), Phase(<<>>), Phase(<<>>)),
    Report(50, Phase(<<>>), Phase(<<ElbowHigh>>), Phase(<<>>), Phase(<<>>)),
    Report(50, Phase(<<PoorAlignment>>), Phase(<<>>), Phase(<<>>), Phase(<<>>)),
    Report(50, Phase(<<>>), Phase(<<ShoulderUp>>), Phase(<<>>), Phase(<<>>)),
    Report(50, NoPhase, Measured(NoList, [angle |-> 20]),
           Measured(Phase(<<AnchorPoint>>), [angle |-> 30]), Phase(<<ReleaseSlow>>)),
    Report(50, Phase(<<>>), Phase(<<>>), Phase(<<>>), Phase(<<ReleaseSlow>>)) }

\* landmark coordinates are kept in hundredths
\* a frame of n landmarks whose coordinates run with the index
FrameA(n) ==
  [present |-> TRUE, hasLandmarks |-> TRUE,
   pose_landmarks |-> [k \in 1..n |-> [x |-> 20 + k, y |-> 90 - 2 * k, z |-> k - 16]]]

\* a second frame of 33 landmarks at other coordinates
FrameB ==
  [present |-> TRUE, hasLandmarks |-> TRUE,
   pose_landmarks |-> [k \in 1..33 |-> [x |-> 70 - k, y |-> 10 + k, z |-> 2 * k]]]

\* a frame without the field pose_landmarks
NoLandmarks == [present |-> TRUE, hasLandmarks |-> FALSE, pose_landmarks |-> <<>>]

\* a null entry of pose_data
NullFrame == [present |-> FALSE, hasLandmarks |-> FALSE, pose_landmarks |-> <<>>]

\* a null element of pose_landmarks
NullLandmark == [isNull |-> TRUE]

\* a frame of 33 landmarks whose landmark 28, the right ankle, is null
FrameHole ==
  [present |-> TRUE, hasLandmarks |-> TRUE,
   pose_landmarks |-> [FrameA(33).pose_landmarks EXCEPT ![29] = NullLandmark]]

\* the entries pose_data can hold: two full frames, a frame of 30 landmarks,
\* a frame with a null landmark, a frame without landmarks and null
Frames == {FrameA(33), FrameB, FrameA(30), FrameHole, NoLandmarks, NullFrame}

\* the arrays pose_data can be
PoseDatas == UNION {[1..n -> Frames] : n \in 0..MaxLen}

\* a result with the pose_data p and the report rep
Result(r, p, rep) ==
  [req |-> r, hasPose |-> TRUE, len |-> Len(p), pose_data |-> p, analysis |-> rep]

\* results that differ in their frames, and results that differ in their errors
SceneResults(r) ==
  {Result(r, p, rep) : p \in PoseDatas, rep \in {NoErrors, AllErrors}}
  \cup {Result(r, p, rep) :
          p \in {q \in {<<FrameA(33)>>, <<FrameB, FrameA(30)>>} : Len(q) <= MaxLen},
          rep \in Reports}

\* the scores a report can carry, some of them outside [0, 100]
Scores == -1..101

\* results that differ in their score
ScoreResults(r) ==
  {Result(r, <<FrameA(33)>>, [NoErrors EXCEPT !.overall_score = s]) : s \in Scores}

\* ============================================================ skill level
\* getVideoLevel with the levels Advanced and Intermediate exchanged
GetVideoLevelSwapped(score) ==
  IF score >= 80 THEN [level |-> "Expert", color |-> "#00ff88", icon |-> "trophy"]
  ELSE IF score >= 60 THEN [level |-> "Intermediate", color |-> "#ffd93d", icon |-> "chart"]
  ELSE IF score >= 40 THEN [level |-> "Advanced", color |-> "#4ecdc4", icon |-> "star"]
  ELSE IF score >= 20 THEN [level |-> "Beginner", color |-> "#ffaa00", icon |-> "target"]
  ELSE [level |-> "Needs Practice", color |-> "#ff6b6b", icon |-> "flex"]

\* getVideoLevel with strict comparisons
GetVideoLevelStrict(score) ==
  IF score > 80 THEN [level |-> "Expert", color |-> "#00ff88", icon |-> "trophy"]
  ELSE IF score > 60 THEN [level |-> "Advanced", color |-> "#4ecdc4", icon |-> "star"]
  ELSE IF score > 40 THEN [level |-> "Intermediate", color |-> "#ffd93d", icon |-> "chart"]
  ELSE IF score > 20 THEN [level |-> "Beginner", color |-> "#ffaa00", icon |-> "target"]
  ELSE [level |-> "Needs Practice", color |-> "#ff6b6b", icon |-> "flex"]

\* getVideoLevel(score)
GetVideoLevel(score) ==
  IF score >= 80 THEN [level |-> "Expert", color |-> "#00ff88", icon |-> "trophy"]
  ELSE IF score >= 60 THEN [level |-> "Advanced", color |-> "#4ecdc4", icon |-> "star"]
  ELSE IF score >= 40 THEN [level |-> "Intermediate", color |-> "#ffd93d", icon |-> "chart"]
  ELSE IF score >= 20 THEN [level |-> "Beginner", color |-> "#ffaa00", icon |-> "target"]
  ELSE [level |-> "Needs Practice", color |-> "#ff6b6b", icon |-> "flex"]

\* videoLevel = getVideoLevel(analysis?.analysis?.overall_score || 0)
VideoLevel ==
  GetVideoLevel(IF analysis = NullAnalysis THEN 0 ELSE analysis.analysis.overall_score)

\* ============================================================== rendering
\* the errors of one phase: stance_analysis?.errors || []
PhaseErrors(p) == IF p.present /\ p.hasErrors THEN p.errors ELSE <<>>

\* what the spread of one phase's metrics adds: ...stance_analysis?.metrics
PhaseMetrics(p) == IF p.present /\ p.hasMetrics THEN p.metrics ELSE EmptyObject

\* {...target, ...source}: the properties of both, source winning on a name
Spread(target, source) ==
  [k \in DOMAIN target \cup DOMAIN source |->
     IF k \in DOMAIN source THEN source[k] ELSE target[k]]

\* getCurrentAnalysis with overall_score written before the phase metrics
GetCurrentAnalysisScoreFirst(a) ==
  IF a = NullAnalysis
  THEN [errors |-> <<>>, metrics |-> EmptyObject]
  ELSE [errors |-> PhaseErrors(a.analysis.stance_analysis)
                   \o PhaseErrors(a.analysis.draw_analysis)
                   \o PhaseErrors(a.analysis.anchor_analysis)
                   \o PhaseErrors(a.analysis.release_analysis),
        metrics |->
          Spread(Spread(Spread(Spread([overall_score |-> a.analysis.overall_score],
                                      PhaseMetrics(a.analysis.stance_analysis)),
                               PhaseMetrics(a.analysis.draw_analysis)),
                        PhaseMetrics(a.analysis.anchor_analysis)),
                 PhaseMetrics(a.analysis.release_analysis))]

\* getCurrentAnalysis() for the analysis a
GetCurrentAnalysis(a) ==
  IF a = NullAnalysis
  THEN [errors |-> <<>>, metrics |-> EmptyObject]
  ELSE [errors |-> PhaseErrors(a.analysis.stance_analysis)
                   \o PhaseErrors(a.analysis.draw_analysis)
                   \o PhaseErrors(a.analysis.anchor_analysis)
                   \o PhaseErrors(a.analysis.release_analysis),
        metrics |->
          Spread(Spread(Spread(Spread(PhaseMetrics(a.analysis.stance_analysis),
                                      PhaseMetrics(a.analysis.draw_analysis)),
                               PhaseMetrics(a.analysis.anchor_analysis)),
                        PhaseMetrics(a.analysis.release_analysis)),
                 [overall_score |-> a.analysis.overall_score])]

\* the entries a report can hold and the words the code looks for
Entries ==
  {StanceWidth, AnchorPoint, ElbowDraw, ElbowHigh, PoorAlignment, ShoulderUp,
   ReleaseSlow}

Keywords == {KwStance, KwShoulder, KwAlignment, KwDraw, KwElbow, KwAnchor}

\* for each entry e, the words w with e.toLowerCase().includes(w)
EntryWords == [e \in Entries |-> {w \in Keywords : Includes(ToLowerCase(e), w)}]

\* errors.some(e => the lower-cased e includes one of the words ws)
SomeError(errors, ws) ==
  \E k \in 1..Len(errors) : EntryWords[errors[k]] \cap ws # {}

\* the element i of a JavaScript array, and whether it is there
At(arr, i) == arr[i + 1]

Has(arr, i) == 0 <= i /\ i + 1 <= Len(arr)

\* the MediaPipe connections: arms, torso, legs, face
Connections ==
  << <<11, 12>>, <<11, 13>>, <<13, 15>>, <<12, 14>>, <<14, 16>>,
     <<11, 23>>, <<12, 24>>, <<23, 24>>,
     <<23, 25>>, <<25, 27>>, <<24, 26>>, <<26, 28>>,
     <<0, 1>>, <<1, 2>>, <<2, 3>>, <<3, 7>>, <<0, 4>>, <<4, 5>>, <<5, 6>>, <<6, 8>> >>

\* [11, 12, 13, 14, 15, 16]
ArmIndices == {11, 12, 13, 14, 15, 16}

\* [23, 24, 25, 26, 27, 28]
LegIndices == {23, 24, 25, 26, 27, 28}

\* [23, 24, 27, 28]
StancePoints == {23, 24, 27, 28}

\* MapLandmark without the change of sign of y
MapLandmarkNoFlip(l) == <<(l.x - 50) * 4, (l.y - 50) * 4, l.z * 2>>

\* the scene point of a landmark, in hundredths:
\* [(x - 0.5) * 4, -(y - 0.5) * 4, z * 2]
MapLandmark(l) == <<(l.x - 50) * 4, -((l.y - 50) * 4), l.z * 2>>

\* points = landmarks.map(...)
Points(landmarks) == [k \in 1..Len(landmarks) |-> MapLandmark(landmarks[k])]

\* lineColor of the connection <<start, end>>
EdgeColor(start, end, errors) ==
  IF start \in ArmIndices \/ end \in ArmIndices
  THEN (IF SomeError(errors, {KwDraw, KwShoulder}) THEN "#ff6b6b" ELSE "#4ecdc4")
  ELSE IF start \in LegIndices \/ end \in LegIndices
  THEN (IF SomeError(errors, {KwStance}) THEN "#ff4444" ELSE "#ffd93d")
  ELSE "#00ff88"

\* the lines of the skeleton: one for each connection whose ends are points
Edges(points, errors) ==
  LET drawn == SelectSeq(Connections,
                         LAMBDA c : c[1] < Len(points) /\ c[2] < Len(points))
  IN [k \in 1..Len(drawn) |->
        [start |-> drawn[k][1], end |-> drawn[k][2],
         points |-> <<At(points, drawn[k][1]), At(points, drawn[k][2])>>,
         color |-> EdgeColor(drawn[k][1], drawn[k][2], errors)]]

\* JointColor with the head joint keyed on the stance entries
JointColorHeadOnStance(index, errors) ==
  IF index \in ArmIndices
  THEN (IF SomeError(errors, {KwDraw, KwShoulder}) THEN "#ff6b6b" ELSE "#4ecdc4")
  ELSE IF index \in StancePoints
  THEN (IF SomeError(errors, {KwStance}) THEN "#ff4444" ELSE "#ffd93d")
  ELSE IF index \in {0}
  THEN (IF SomeError(errors, {KwStance}) THEN "#4ecdc4" ELSE "#ffffff")
  ELSE "#ffffff"

\* color of the joint index
JointColor(index, errors) ==
  IF index \in ArmIndices
  THEN (IF SomeError(errors, {KwDraw, KwShoulder}) THEN "#ff6b6b" ELSE "#4ecdc4")
  ELSE IF index \in StancePoints
  THEN (IF SomeError(errors, {KwStance}) THEN "#ff4444" ELSE "#ffd93d")
  ELSE IF index \in {0}
  THEN (IF SomeError(errors, {KwAnchor}) THEN "#4ecdc4" ELSE "#ffffff")
  ELSE "#ffffff"

\* size of the joint index, in hundredths
JointSize(index) ==
  IF index \in ArmIndices THEN 8
  ELSE IF index \in StancePoints THEN 8
  ELSE IF index \in {0} THEN 7
  ELSE 6

\* the spheres of the skeleton: one for each point
Joints(points, errors) ==
  [k \in 1..Len(points) |->
     [index |-> k - 1, position |-> points[k],
      size |-> JointSize(k - 1), color |-> JointColor(k - 1, errors)]]

\* one element of the annotations array; an angle is kept as the arguments
\* <<dy, dx>> of Math.atan2, a rotation as its three components
Annotation(key, kind, position, rotation, color, label, to, angle) ==
  [key |-> key, kind |-> kind, position |-> position, rotation |-> rotation,
   color |-> color, label |-> label, to |-> to, angle |-> angle]

\* StanceAnnotations without the test of the entries
StanceAnnotationsAlways(points, errors) ==
  IF Has(points, 27) /\ Has(points, 28)
  THEN LET leftAnkle == At(points, 27)
           rightAnkle == At(points, 28)
       IN << Annotation("stance-error", "arrow",
                        <<(leftAnkle[1] + rightAnkle[1]) \div 2,
                          leftAnkle[2] - 50, leftAnkle[3]>>,
                        <<"0", "0", "PI">>, "#ff4444", "Adjust Stance Width",
                        <<>>, <<>>) >>
  ELSE <<>>

\* "Stance error annotation"
StanceAnnotations(points, errors) ==
  IF SomeError(errors, {KwStance}) /\ Has(points, 27) /\ Has(points, 28)
  THEN LET leftAnkle == At(points, 27)
           rightAnkle == At(points, 28)
       IN << Annotation("stance-error", "arrow",
                        <<(leftAnkle[1] + rightAnkle[1]) \div 2,
                          leftAnkle[2] - 50, leftAnkle[3]>>,
                        <<"0", "0", "PI">>, "#ff4444", "Adjust Stance Width",
                        <<>>, <<>>) >>
  ELSE <<>>

\* ShoulderAnnotations that looks for "shoulder" only
ShoulderAnnotationsShoulderOnly(points, errors) ==
  IF SomeError(errors, {KwShoulder}) /\ Has(points, 11) /\ Has(points, 12)
  THEN LET leftShoulder == At(points, 11)
           rightShoulder == At(points, 12)
       IN << Annotation("shoulder-angle", "angle",
                        <<(leftShoulder[1] + rightShoulder[1]) \div 2,
                          (leftShoulder[2] + rightShoulder[2]) \div 2,
                          leftShoulder[3]>>,
                        <<>>, "#ff6b6b", "", rightShoulder,
                        <<rightShoulder[2] - leftShoulder[2],
                          rightShoulder[1] - leftShoulder[1]>>),
             Annotation("shoulder-error", "arrow",
                        <<rightShoulder[1] + 30, rightShoulder[2], rightShoulder[3]>>,
                        <<"0", "0", "-PI/4">>, "#ff6b6b", "Level Shoulders",
                        <<>>, <<>>) >>
  ELSE <<>>

\* "Shoulder alignment error"
ShoulderAnnotations(points, errors) ==
  IF SomeError(errors, {KwShoulder, KwAlignment}) /\ Has(points, 11) /\ Has(points, 12)
  THEN LET leftShoulder == At(points, 11)
           rightShoulder == At(points, 12)
       IN << Annotation("shoulder-angle", "angle",
                        <<(leftShoulder[1] + rightShoulder[1]) \div 2,
                          (leftShoulder[2] + rightShoulder[2]) \div 2,
                          leftShoulder[3]>>,
                        <<>>, "#ff6b6b", "", rightShoulder,
                        <<rightShoulder[2] - leftShoulder[2],
                          rightShoulder[1] - leftShoulder[1]>>),
             Annotation("shoulder-error", "arrow",
                        <<rightShoulder[1] + 30, rightShoulder[2], rightShoulder[3]>>,
                        <<"0", "0", "-PI/4">>, "#ff6b6b", "Level Shoulders",
                        <<>>, <<>>) >>
  ELSE <<>>

\* DrawAnnotations with the ideal path drawn from the elbow
DrawAnnotationsFromElbow(points, errors) ==
  IF SomeError(errors, {KwDraw, KwElbow})
     /\ Has(points, 14) /\ Has(points, 12) /\ Has(points, 16)
  THEN LET elbow == At(points, 14)
       IN << Annotation("draw-error", "arrow",
                        <<elbow[1] + 20, elbow[2], elbow[3]>>,
                        <<"0", "PI/2", "0">>, "#ffaa00", "Smooth Draw Path",
                        <<>>, <<>>),
             Annotation("ideal-draw-path", "dashed-line", elbow,
                        <<>>, "#00ff88", "",
                        <<elbow[1] + 100, elbow[2], elbow[3]>>, <<>>) >>
  ELSE <<>>

\* "Draw phase error (elbow position)"
DrawAnnotations(points, errors) ==
  IF SomeError(errors, {KwDraw, KwElbow})
     /\ Has(points, 14) /\ Has(points, 12) /\ Has(points, 16)
  THEN LET elbow == At(points, 14)
           shoulder == At(points, 12)
       IN << Annotation("draw-error", "arrow",
                        <<elbow[1] + 20, elbow[2], elbow[3]>>,
                        <<"0", "PI/2", "0">>, "#ffaa00", "Smooth Draw Path",
                        <<>>, <<>>),
             Annotation("ideal-draw-path", "dashed-line", shoulder,
                        <<>>, "#00ff88", "",
                        <<shoulder[1] + 100, shoulder[2], shoulder[3]>>, <<>>) >>
  ELSE <<>>

\* "Anchor point error"
AnchorAnnotations(points, errors) ==
  IF SomeError(errors, {KwAnchor}) /\ Has(points, 16) /\ Has(points, 0)
  THEN LET wrist == At(points, 16)
           nose == At(points, 0)
       IN << Annotation("anchor-error", "arrow",
                        <<wrist[1], wrist[2] + 30, wrist[3]>>,
                        <<"PI", "0", "0">>, "#4ecdc4", "Consistent Anchor",
                        <<>>, <<>>),
             Annotation("anchor-zone", "sphere", nose,
                        <<>>, "#4ecdc4", "", <<>>, <<>>) >>
  ELSE <<>>

\* getErrorAnnotations()
GetErrorAnnotations(points, errors) ==
  StanceAnnotations(points, errors) \o ShoulderAnnotations(points, errors)
  \o DrawAnnotations(points, errors) \o AnchorAnnotations(points, errors)

\* what PoseVisualization returns when it returns null
NullScene ==
  [rendered |-> FALSE, thrown |-> FALSE, edges |-> <<>>, joints |-> <<>>,
   annotations |-> <<>>, score |-> 0, frame |-> 0, total |-> 0]

\* what is left of PoseVisualization when its render throws a TypeError
ThrownScene == [NullScene EXCEPT !.thrown = TRUE]

\* landmarks.map(landmark => [landmark.x ...]) reads a field of null
MapThrows(landmarks) == \E k \in 1..Len(landmarks) : landmarks[k] = NullLandmark

\* landmarks = poseData[currentFrame].pose_landmarks || []
Landmarks(frame) == IF frame.hasLandmarks THEN frame.pose_landmarks ELSE <<>>

\* Renderable with a frame of 30 landmarks let through
RenderableLoose(a, frame) ==
  /\ a.hasPose
  /\ Has(a.pose_data, frame)
  /\ At(a.pose_data, frame).present
  /\ Len(Landmarks(At(a.pose_data, frame))) >= 30

\* the guards of PoseVisualization: poseData && poseData[currentFrame] and
\* at least 33 landmarks
Renderable(a, frame) ==
  /\ a.hasPose
  /\ Has(a.pose_data, frame)
  /\ At(a.pose_data, frame).present
  /\ Len(Landmarks(At(a.pose_data, frame))) >= 33

\* PoseVisualization({poseData, currentFrame, errors, analysis}) for the
\* result a
PoseVisualization(a, frame, errors) ==
  IF ~Renderable(a, frame)
  THEN NullScene
  ELSE IF MapThrows(Landmarks(At(a.pose_data, frame)))
  THEN ThrownScene
  ELSE LET points == Points(Landmarks(At(a.pose_data, frame)))
       IN [rendered |-> TRUE, thrown |-> FALSE,
           edges |-> Edges(points, errors),
           joints |-> Joints(points, errors),
           annotations |-> GetErrorAnnotations(points, errors),
           score |-> a.analysis.overall_score,
           frame |-> frame + 1,
           total |-> Len(a.pose_data)]

\* the errors the App hands to PoseVisualization
CurrentErrors == GetCurrentAnalysis(analysis).errors

\* the scene on the canvas; there is none while the results are not shown
Scene ==
  IF ResultsShown THEN PoseVisualization(analysis, currentFrame, CurrentErrors)
  ELSE NullScene

\* ============================================== the App with full results
\* the App from its first render to one loaded result and the choice of the
\* frame on screen, with responses that carry frames, error reports and scores
NextRender ==
  \/ \E file \in Files(MaxRequests) : OnDrop(file)
  \/ \E r \in requests, ok \in BOOLEAN :
       \E result \in SceneResults(r.id) \cup ScoreResults(r.id) :
         AnalyzeResponse(r, ok, result)
  \/ ResetAnimation
  \/ \E raw \in SeekInputs : Seek(raw)

SpecRender == Init /\ [][NextRender]_vars

\* ----------------------------------------------------------- claims C11-
\* C11: the level of a score is Expert exactly from 80 on, Advanced exactly
\* in [60, 80), Intermediate exactly in [40, 60), Beginner exactly in
\* [20, 40) and Needs Practice exactly below 20, for every score shown.
C11_LevelBands ==
  Loaded =>
    LET s == analysis.analysis.overall_score
        l == VideoLevel.level
    IN /\ (l = "Expert") <=> (s >= 80)
       /\ (l = "Advanced") <=> (60 <= s /\ s < 80)
       /\ (l = "Intermediate") <=> (40 <= s /\ s < 60)
       /\ (l = "Beginner") <=> (20 <= s /\ s < 40)
       /\ (l = "Needs Practice") <=> (s < 20)

\* C11 witness: a result whose score is the lower end of a band is shown.
C11_Witness ==
  /\ ResultsShown
  /\ analysis.analysis.overall_score = 60
  /\ VideoLevel.level = "Advanced"

\* C12 as stated: 79 is Intermediate, 80 is Expert, 19 is Needs Practice and
\* 20 is Beginner.
C12_BoundariesAsStated ==
  Loaded =>
    LET s == analysis.analysis.overall_score
        l == VideoLevel.level
    IN /\ (s = 79) => (l = "Intermediate")
       /\ (s = 80) => (l = "Expert")
       /\ (s = 19) => (l = "Needs Practice")
       /\ (s = 20) => (l = "Beginner")

\* C12 as amended: 79 is Advanced, 80 is Expert, 19 is Needs Practice and 20
\* is Beginner.
C12_Boundaries ==
  Loaded =>
    LET s == analysis.analysis.overall_score
        l == VideoLevel.level
    IN /\ (s = 79) => (l = "Advanced")
       /\ (s = 80) => (l = "Expert")
       /\ (s = 19) => (l = "Needs Practice")
       /\ (s = 20) => (l = "Beginner")

\* C12 witness: a result with the score 79 is shown.
C12_Witness ==
  /\ ResultsShown
  /\ analysis.analysis.overall_score = 79
  /\ VideoLevel.level = "Advanced"

\* =========================================================== scene claims
\* the entry of pose_data at currentFrame
ShownFrame == At(analysis.pose_data, currentFrame)

\* the results are shown and there is a frame at currentFrame
FrameShown ==
  /\ ResultsShown
  /\ analysis.hasPose
  /\ Has(analysis.pose_data, currentFrame)
  /\ ShownFrame.present

\* the frame at currentFrame holds at least 33 landmarks, none of them null
ValidFrame ==
  /\ FrameShown
  /\ ShownFrame.hasLandmarks
  /\ Len(ShownFrame.pose_landmarks) >= 33
  /\ \A k \in 1..Len(ShownFrame.pose_landmarks) :
       ShownFrame.pose_landmarks[k] # NullLandmark

\* the results are shown and the frame at currentFrame is missing or short
InvalidFrame ==
  /\ ResultsShown
  /\ \/ ~FrameShown
     \/ ~ShownFrame.hasLandmarks
     \/ Len(ShownFrame.pose_landmarks) < 33

\* the four categories of the classification rule
StanceActive == SomeError(CurrentErrors, {KwStance})

AlignmentActive == SomeError(CurrentErrors, {KwShoulder, KwAlignment})

DrawActive == SomeError(CurrentErrors, {KwDraw, KwElbow})

AnchorActive == SomeError(CurrentErrors, {KwAnchor})

\* the keys of the annotations ann
KeysOf(ann) == {ann[k].key : k \in 1..Len(ann)}

\* the annotations of the scene
Annotations == Scene.annotations

\* the keys of the annotations of the scene
Keys == KeysOf(Annotations)

\* the annotations among ann of the kind kind with the label label
Directives(ann, kind, label) ==
  {k \in 1..Len(ann) : ann[k].kind = kind /\ ann[k].label = label}

\* the scene point of the landmark i of the frame at currentFrame
LandmarkPoint(i) == MapLandmark(At(ShownFrame.pose_landmarks, i))

\* 1 for an active category, 0 for an inactive one
Weight(active) == IF active THEN 1 ELSE 0

\* C13: on a valid frame every arm edge and every arm joint (11-16) has the
\* alert colour exactly when the draw category ("draw" or "elbow") or the
\* alignment category ("shoulder" or "alignment") is active, and the neutral
\* accent colour otherwise.
C13_ArmsColour ==
  ValidFrame =>
    LET colour == IF DrawActive \/ AlignmentActive THEN "#ff6b6b" ELSE "#4ecdc4"
        scene == Scene
    IN /\ \A k \in 1..Len(scene.joints) :
            scene.joints[k].index \in 11..16 => scene.joints[k].color = colour
       /\ \A k \in 1..Len(scene.edges) :
            (scene.edges[k].start \in 11..16 /\ scene.edges[k].end \in 11..16)
              => scene.edges[k].color = colour

\* C14: on a valid frame the annotations of a category are there exactly
\* when an entry contains its word in any case: "stance"; "shoulder" or
\* "alignment"; "draw" or "elbow"; "anchor". The entries "Stance width too
\* narrow" alone give the stance annotations only; "Inconsistent anchor
\* point" with "Elbow drops during draw" give the anchor and draw
\* annotations only; "Poor ALIGNMENT" gives the alignment annotations.
C14_Classification ==
  ValidFrame =>
    LET keys == Keys
    IN /\ ("stance-error" \in keys) <=> StanceActive
       /\ ({"shoulder-angle", "shoulder-error"} \cap keys # {}) <=> AlignmentActive
       /\ ({"draw-error", "ideal-draw-path"} \cap keys # {}) <=> DrawActive
       /\ ({"anchor-error", "anchor-zone"} \cap keys # {}) <=> AnchorActive
       /\ CurrentErrors = <<StanceWidth>> => keys = {"stance-error"}
       /\ CurrentErrors = <<AnchorPoint, ElbowDraw>>
            => keys = {"draw-error", "ideal-draw-path", "anchor-error", "anchor-zone"}
       /\ CurrentErrors = <<PoorAlignment>>
            => keys = {"shoulder-angle", "shoulder-error"}

\* C14 witness: the entries "Inconsistent anchor point" and "Elbow drops
\* during draw" are shown on a valid frame with the anchor and draw
\* annotations.
C14_Witness ==
  /\ ValidFrame
  /\ CurrentErrors = <<AnchorPoint, ElbowDraw>>
  /\ Keys = {"draw-error", "ideal-draw-path", "anchor-error", "anchor-zone"}

\* C15: on a valid frame stance gives one arrow "Adjust Stance Width";
\* alignment one angle arc and one arrow "Level Shoulders"; draw one arrow
\* "Smooth Draw Path" and one dashed path from the right shoulder (12) to the
\* point one unit further along x; anchor one arrow "Consistent Anchor" and
\* one highlight zone at landmark 0; the number of annotations is
\* 1*stance + 2*alignment + 2*draw + 2*anchor.
C15_Directives ==
  ValidFrame =>
    LET ann == Annotations
        shoulder == LandmarkPoint(12)
    IN /\ Len(ann) = Weight(StanceActive) + 2 * Weight(AlignmentActive)
                     + 2 * Weight(DrawActive) + 2 * Weight(AnchorActive)
       /\ StanceActive => Cardinality(Directives(ann, "arrow", "Adjust Stance Width")) = 1
       /\ AlignmentActive =>
            /\ Cardinality(Directives(ann, "angle", "")) = 1
            /\ Cardinality(Directives(ann, "arrow", "Level Shoulders")) = 1
       /\ DrawActive =>
            /\ Cardinality(Directives(ann, "arrow", "Smooth Draw Path")) = 1
            /\ Cardinality(Directives(ann, "dashed-line", "")) = 1
            /\ \A k \in Directives(ann, "dashed-line", "") :
                 /\ ann[k].position = shoulder
                 /\ ann[k].to = <<shoulder[1] + 100, shoulder[2], shoulder[3]>>
       /\ AnchorActive =>
            /\ Cardinality(Directives(ann, "arrow", "Consistent Anchor")) = 1
            /\ Cardinality(Directives(ann, "sphere", "")) = 1
            /\ \A k \in Directives(ann, "sphere", "") : ann[k].position = LandmarkPoint(0)

\* C15 witness: a valid frame is shown with all four categories active and
\* seven annotations.
C15_Witness ==
  /\ ValidFrame
  /\ StanceActive /\ AlignmentActive /\ DrawActive /\ AnchorActive
  /\ Len(Scene.annotations) = 7

\* C16: with an empty error list the scene has no annotation, whatever the
\* frame.
C16_NoErrorsNoDirectives ==
  (ResultsShown /\ CurrentErrors = <<>>) => Scene.annotations = <<>>

\* C16 witness: a valid frame is drawn with its 33 joints, an empty error
\* list and no annotation.
C16_Witness ==
  /\ ValidFrame
  /\ CurrentErrors = <<>>
  /\ Len(Scene.joints) = 33
  /\ Scene.annotations = <<>>

\* C17: on a valid frame every leg edge and every leg joint (hips 23/24,
\* knees 25/26, ankles 27/28) has the alert colour exactly when the stance
\* category is active, and the neutral accent colour otherwise.
C17_LegsColour ==
  ValidFrame =>
    LET colour == IF StanceActive THEN "#ff4444" ELSE "#ffd93d"
        scene == Scene
    IN /\ \A k \in 1..Len(scene.joints) :
            scene.joints[k].index \in 23..28 => scene.joints[k].color = colour
       /\ \A k \in 1..Len(scene.edges) :
            (scene.edges[k].start \in 23..28 /\ scene.edges[k].end \in 25..28)
              => scene.edges[k].color = colour

\* C18: every step that leaves the results shown with a frame of fewer than
\* 33 landmarks, no frame at currentFrame or an empty sequence leaves a scene
\* without edges, joints and annotations, and leaves the error message as it
\* was.
C18_InvalidFrameNotRendered ==
  [][InvalidFrame' =>
       /\ Scene' = [Scene' EXCEPT !.edges = <<>>, !.joints = <<>>,
                                  !.annotations = <<>>, !.thrown = FALSE]
       /\ error' = error]_vars

\* C18 witness: the results are shown at a frame of 30 landmarks, with no
\* scene.
C18_Witness ==
  /\ InvalidFrame
  /\ FrameShown
  /\ Len(Landmarks(ShownFrame)) = 30
  /\ Scene = NullScene

\* C19: on a frame of 33 landmarks whose right ankle (28) is absent, only
\* the stance arrow is skipped: the skeleton, the overlays and the
\* annotations of the other active categories are produced and nothing
\* fails.
C19_OnlyThatDirectiveSkipped ==
  (/\ FrameShown
   /\ ShownFrame.hasLandmarks
   /\ Len(ShownFrame.pose_landmarks) >= 33
   /\ At(ShownFrame.pose_landmarks, 28) = NullLandmark)
    => LET scene == Scene
           keys == KeysOf(scene.annotations)
       IN /\ ~scene.thrown
          /\ scene.rendered
          /\ scene.frame = currentFrame + 1
          /\ "stance-error" \notin keys
          /\ AlignmentActive => {"shoulder-angle", "shoulder-error"} \subseteq keys
          /\ DrawActive => {"draw-error", "ideal-draw-path"} \subseteq keys
          /\ AnchorActive => {"anchor-error", "anchor-zone"} \subseteq keys

\* the joints of the frame at currentFrame drawn for the entries errors
JointsFor(errors) == PoseVisualization(analysis, currentFrame, errors).joints

\* C20: on a valid frame the joint 0 has the highlight colour exactly when
\* the anchor category is active and the default colour otherwise; the colour
\* of every other joint stays the same when an anchor entry is added to the
\* entries and when the anchor entries are taken away.
C20_HeadJoint ==
  ValidFrame =>
    LET with == JointsFor(CurrentErrors \o <<AnchorPoint>>)
        without == JointsFor(SelectSeq(CurrentErrors, LAMBDA e : e # AnchorPoint))
        joints == Scene.joints
    IN /\ joints[1].index = 0
       /\ joints[1].color = IF AnchorActive THEN "#4ecdc4" ELSE "#ffffff"
       /\ \A k \in 2..Len(joints) :
            /\ with[k].color = joints[k].color
            /\ without[k].color = joints[k].color

\* C20 witness: a valid frame is shown with the anchor category active and
\* the joint 0 in the highlight colour.
C20_Witness ==
  /\ ValidFrame
  /\ AnchorActive
  /\ Scene.joints[1].color = "#4ecdc4"

\* ======================================================= aggregate claims
\* the four phase reports of the loaded result, in the order of the spreads
PhaseReports ==
  <<analysis.analysis.stance_analysis, analysis.analysis.draw_analysis,
    analysis.analysis.anchor_analysis, analysis.analysis.release_analysis>>

\* the error list of the phase report p, empty when p or the list is missing
ListOf(p) == IF p.present /\ p.hasErrors THEN p.errors ELSE <<>>

\* the metric names of the phase report p
NamesOf(p) == IF p.present /\ p.hasMetrics THEN DOMAIN p.metrics ELSE {}

\* C21: for a loaded result getCurrentAnalysis gives as errors the stance,
\* draw, anchor and release lists one after the other, a missing phase or
\* list counting as empty; as metrics every phase metric, the value being
\* that of the last phase that has the name, and overall_score with the
\* score of the result. With no result it gives no errors and no metrics.
C21_Aggregate ==
  LET current == GetCurrentAnalysis(analysis)
  IN IF ~Loaded
     THEN current.errors = <<>> /\ DOMAIN current.metrics = {}
     ELSE LET lists == [i \in 1..4 |-> ListOf(PhaseReports[i])]
              before == [i \in 1..4 |->
                           IF i = 1 THEN 0
                           ELSE IF i = 2 THEN Len(lists[1])
                           ELSE IF i = 3 THEN Len(lists[1]) + Len(lists[2])
                           ELSE Len(lists[1]) + Len(lists[2]) + Len(lists[3])]
          IN /\ Len(current.errors) =
                  Len(lists[1]) + Len(lists[2]) + Len(lists[3]) + Len(lists[4])
             /\ \A i \in 1..4 : \A k \in 1..Len(lists[i]) :
                  current.errors[before[i] + k] = lists[i][k]
             /\ DOMAIN current.metrics =
                  UNION {NamesOf(PhaseReports[i]) : i \in 1..4} \cup {"overall_score"}
             /\ current.metrics["overall_score"] = analysis.analysis.overall_score
             /\ \A i \in 1..4 : \A n \in NamesOf(PhaseReports[i]) \ {"overall_score"} :
                  (\A j \in (i + 1)..4 : n \notin NamesOf(PhaseReports[j]))
                    => current.metrics[n] = PhaseReports[i].metrics[n]

\* C21 witness: the loaded result has errors in all four phases, a metric
\* name shared by two phases and a phase metric named overall_score.
C21_Witness ==
  /\ ResultsShown
  /\ \A i \in 1..4 : ListOf(PhaseReports[i]) # <<>>
  /\ "angle" \in NamesOf(PhaseReports[1]) \cap NamesOf(PhaseReports[2])
  /\ "overall_score" \in NamesOf(PhaseReports[2])
  /\ GetCurrentAnalysis(analysis).metrics["angle"] = 20
  /\ Len(GetCurrentAnalysis(analysis).errors) = 5

\* C22: on a valid frame every landmark (x, y, z) is drawn at
\* ((x - 0.5) * 4, -(y - 0.5) * 4, z * 2), here in hundredths; the joints,
\* the ends of the edges and the places of the annotations are all taken
\* from these points, and of two landmarks the one with the larger y is
\* drawn at the smaller y.
C22_CoordinateMapper ==
  ValidFrame =>
    LET scene == Scene
        lm == ShownFrame.pose_landmarks
        P == [i \in 0..(Len(lm) - 1) |->
                <<(lm[i + 1].x - 50) * 4, -((lm[i + 1].y - 50) * 4), lm[i + 1].z * 2>>]
        ann == scene.annotations
    IN /\ Len(scene.joints) = Len(lm)
       /\ \A k \in 1..Len(scene.joints) : scene.joints[k].position = P[k - 1]
       /\ \A k \in 1..Len(scene.edges) :
            scene.edges[k].points = <<P[scene.edges[k].start], P[scene.edges[k].end]>>
       /\ \A k \in 1..Len(ann) :
            /\ ann[k].key = "stance-error" =>
                 ann[k].position = <<(P[27][1] + P[28][1]) \div 2, P[27][2] - 50, P[27][3]>>
            /\ ann[k].key = "shoulder-angle" =>
                 /\ ann[k].position = <<(P[11][1] + P[12][1]) \div 2,
                                        (P[11][2] + P[12][2]) \div 2, P[11][3]>>
                 /\ ann[k].to = P[12]
                 /\ ann[k].angle = <<P[12][2] - P[11][2], P[12][1] - P[11][1]>>
            /\ ann[k].key = "shoulder-error" =>
                 ann[k].position = <<P[12][1] + 30, P[12][2], P[12][3]>>
            /\ ann[k].key = "draw-error" =>
                 ann[k].position = <<P[14][1] + 20, P[14][2], P[14][3]>>
            /\ ann[k].key = "ideal-draw-path" =>
                 /\ ann[k].position = P[12]
                 /\ ann[k].to = <<P[12][1] + 100, P[12][2], P[12][3]>>
            /\ ann[k].key = "anchor-error" =>
                 ann[k].position = <<P[16][1], P[16][2] + 30, P[16][3]>>
            /\ ann[k].key = "anchor-zone" => ann[k].position = P[0]
       /\ \A i, j \in 1..Len(lm) :
            lm[i].y > lm[j].y
              => scene.joints[i].position[2] < scene.joints[j].position[2]

\* C22 witness: the frame whose landmark 0 is (0.69, 0.11, 0.02) is drawn
\* with its joint 0 at (0.76, 1.56, 0.04) and with all seven annotations.
C22_Witness ==
  /\ ValidFrame
  /\ ShownFrame = FrameB
  /\ Scene.joints[1].position = <<76, 156, 4>>
  /\ Len(Scene.annotations) = 7

\* C24: on a valid frame the three torso edges 11-23, 12-24 and 23-24 and
\* the face edges have the torso-and-face colour for every error list, the
\* arm edges have the arms colour for draw or alignment, and the leg edges
\* the legs colour for stance.
C24_EdgeColourByGroup ==
  ValidFrame =>
    LET scene == Scene
        arms == {<<11, 12>>, <<11, 13>>, <<13, 15>>, <<12, 14>>, <<14, 16>>}
        torso == {<<11, 23>>, <<12, 24>>, <<23, 24>>}
        legs == {<<23, 25>>, <<25, 27>>, <<24, 26>>, <<26, 28>>}
    IN \A k \in 1..Len(scene.edges) :
         LET edge == <<scene.edges[k].start, scene.edges[k].end>>
         IN scene.edges[k].color =
              IF edge \in arms
              THEN (IF DrawActive \/ AlignmentActive THEN "#ff6b6b" ELSE "#4ecdc4")
              ELSE IF edge \in legs
              THEN (IF StanceActive THEN "#ff4444" ELSE "#ffd93d")
              ELSE "#00ff88"

\* ======================================================= playback claims 2
\* C25: in every state isPlaying implies that an interval is active; every
\* step that turns isPlaying on adds an interval, and every step that takes
\* an interval away leaves isPlaying off.
C25_PlayingHasTimer ==
  /\ [](isPlaying => timers # EmptyBag)
  /\ [][/\ (~isPlaying /\ isPlaying')
             => BagCardinality(timers') = BagCardinality(timers) + 1
        /\ BagCardinality(timers') < BagCardinality(timers) => ~isPlaying']_vars

\* C25 witness: playAnimation has acted a second time and an interval has
\* run since, with isPlaying on and two intervals active.
C25_Witness ==
  /\ NonEmpty
  /\ last.op = "play" /\ last.ticks >= 1
  /\ isPlaying
  /\ BagCardinality(timers) = 2

\* a play, a pause, a reset, a seek or the load of a result
UserStep ==
  \/ PlayAnimation
  \/ PauseAnimation
  \/ ResetAnimation
  \/ \E raw \in SeekInputs : Seek(raw)
  \/ \E r \in requests : \E result \in Results(r.id) : AnalyzeResponse(r, TRUE, result)

\* C23: when from some point on there is no play, pause, reset, seek or load
\* and the intervals keep firing, then from some point on isPlaying is off
\* and no interval is active.
C23_PlaybackEnds ==
  <>[][~UserStep]_vars => <>[](~isPlaying /\ timers = EmptyBag)

\* C23 witness: after a play the intervals have fired at least twice and
\* playback has ended with no interval left.
C23_Witness ==
  /\ NonEmpty
  /\ last.op = "play" /\ last.ticks >= 2
  /\ ~isPlaying
  /\ timers = EmptyBag

\* ========================================================= request claims
\* the analysis requests that have not been answered yet
InFlight == {r \in requests : r.kind = "analyze"}

\* C26: at most one analysis request is in flight, loading is on while one
\* is in flight, and a result that arrives is that of the most recently
\* started analysis request: no analysis request started after it is in
\* flight or has delivered the result on screen.
C26_NoRace ==
  /\ [](Cardinality(InFlight) <= 1 /\ (InFlight # {} => loading))
  /\ [][\A r \in requests : \A result \in Results(r.id) :
          AnalyzeResponse(r, TRUE, result)
            => (/\ \A other \in InFlight : other.id <= r.id
                /\ analysis.req < r.id)]_vars

====
